---- MODULE Spec2Model ----
(***************************************************************************)
(* Model of groot/verification/kantchelian_attack.py: the tree compiler,   *)
(* the MILP encoding of a tree ensemble, the feasibility query (attack),   *)
(* the minimal-distance query (optimal_adversarial_example), the verifier  *)
(* (check) and the multiclass decomposition.                               *)
(*                                                                         *)
(* Numbers.  Every real quantity (thresholds, feature values, leaf values, *)
(* guard, epsilon) is an integer count of grid units; one unit is one      *)
(* third of 10^-ROUND_DIGITS, so that round(threshold, ROUND_DIGITS) is    *)
(* rounding to a multiple of RoundStep and min_diff / 3 is exact.          *)
(* Arithmetic is exact: floating-point error is not modelled.              *)
(***************************************************************************)
EXTENDS Integers, Sequences, FiniteSets, TLC

VARIABLES
    json_model,        \* the ensemble handed to the constructor (sequence of trees)
    args,              \* constructor arguments: epsilon, order, pred_threshold, n_classes
    pc,                \* "init" | "ready" | "failed"
    att,               \* the KantchelianAttack object (binary mode), NoAttacker before
    binary_attackers,  \* KantchelianAttackMultiClass.binary_attackers (list of lists)
    last               \* the last query: its arguments, what it did, what it returned

vars == <<json_model, args, pc, att, binary_attackers, last>>

-----------------------------------------------------------------------------
(* Program constants and the numeric grid *)

\* grid units per 10^-ROUND_DIGITS (ROUND_DIGITS = 6)
RoundStep == 3
\* GUARD_VAL = 5e-6
GUARD_VAL == 15
\* the 0.0001 taken off epsilon for the upper bound of B
EPS_MARGIN == 300
\* min_diff = 1000 before the gaps of a feature are scanned; every threshold of
\* the modelled ensembles is far below 1000.0, so the start value only has to
\* exceed every gap: it is the largest value of the grid
MIN_DIFF_INIT == 2147483647
\* order = np.inf
INF == 99
\* epsilon = None, and a missing child (None)
NONE == -1
\* 1.0 in grid units
ONE == 1000000 * RoundStep

\* round(threshold, self.round_digits): the nearest multiple of RoundStep
Round(threshold) ==
    LET r == threshold % RoundStep
    IN  IF 2 * r < RoundStep THEN threshold - r ELSE threshold - r + RoundStep

Max2(a, b) == IF a >= b THEN a ELSE b
Min2(a, b) == IF a <= b THEN a ELSE b
Abs(a) == IF a >= 0 THEN a ELSE -a

RECURSIVE SumSeq(_)
SumSeq(s) == IF s = <<>> THEN 0 ELSE Head(s) + SumSeq(Tail(s))

\* sum(coefs[i] * vals[i]): the value of LinExpr(coefs, vars) at vals
RECURSIVE DotUpTo(_, _, _)
DotUpTo(coefs, vals, i) ==
    IF i = 0 THEN 0 ELSE coefs[i] * vals[i] + DotUpTo(coefs, vals, i - 1)

Dot(coefs, vals) == DotUpTo(coefs, vals, Len(coefs))

-----------------------------------------------------------------------------
(* JSON trees.  A tree is a function from nodeid to node; the root has     *)
(* nodeid 0; "children" lists the nodeids of the subtrees in list order.   *)

LeafNode(v) ==
    [leaf |-> TRUE, value |-> v, split |-> [str |-> FALSE, idx |-> 0],
     split_condition |-> 0, yes |-> 0, no |-> 0, children |-> <<>>]

SplitNode(ref, thr, y, n, ch) ==
    [leaf |-> FALSE, value |-> 0, split |-> ref,
     split_condition |-> thr, yes |-> y, no |-> n, children |-> ch]

\* a feature reference: a bare integer, or a string "f<idx>"
IntRef(i) == [str |-> FALSE, idx |-> i]
StrRef(i) == [str |-> TRUE, idx |-> i]

\* if type(attribute) == str: attribute = int(attribute[1:])
Attr(ref) == ref.idx

\* Resolve without the missing-child case: a link that names no child falls
\* back on the first child (what C10_Malformed must tell apart from Resolve)
ResolveLenient(tree, nid, link) ==
    IF \E i \in 1..Len(tree[nid].children) : tree[nid].children[i] = link
    THEN link
    ELSE tree[nid].children[1]

\* the child of node nid whose nodeid equals link, NONE when there is none
\* (for subtree in tree["children"]: if subtree["nodeid"] == link: ...)
Resolve(tree, nid, link) ==
    IF \E i \in 1..Len(tree[nid].children) : tree[nid].children[i] = link
    THEN link
    ELSE NONE

-----------------------------------------------------------------------------
(* node_wrapper *)

LeavesEntry(left_leaves, right_leaves, root) ==
    [left |-> left_leaves, right |-> right_leaves, root |-> root]

node_wrapper(treeid, nodeid, attribute, threshold, left_leaves, right_leaves, root) ==
    [attribute |-> attribute, threshold |-> threshold,
     node_pos |-> << [treeid |-> treeid, nodeid |-> nodeid] >>,
     leaves_lists |-> << LeavesEntry(left_leaves, right_leaves, root) >>]

\* add_leaves that marks an occurrence as the first occurrence of the split was
\* marked (what C15_Coupling must tell apart from add_leaves)
add_leaves_as_first(node, treeid, nodeid, left_leaves, right_leaves, root) ==
    [node EXCEPT
        !.node_pos = Append(@, [treeid |-> treeid, nodeid |-> nodeid]),
        !.leaves_lists = Append(@, LeavesEntry(left_leaves, right_leaves,
                                               node.leaves_lists[1].root))]

\* node_wrapper.add_leaves
add_leaves(node, treeid, nodeid, left_leaves, right_leaves, root) ==
    [node EXCEPT
        !.node_pos = Append(@, [treeid |-> treeid, nodeid |-> nodeid]),
        !.leaves_lists = Append(@, LeavesEntry(left_leaves, right_leaves, root))]

-----------------------------------------------------------------------------
(* The tree compiler: dfs and the loops of __init__ that call it.          *)
(* Leaf indices are positions in leaf_v_list, counted from 1.              *)

\* InNodeCheck without the merging: no split is ever found in node_list
\* (what C6_Sharing must tell apart from InNodeCheck)
InNodeCheckNever(node_list, attribute, threshold) == FALSE

\* node_check: whether (attribute, threshold) is already in node_list, and where
InNodeCheck(node_list, attribute, threshold) ==
    \E i \in 1..Len(node_list) :
        node_list[i].attribute = attribute /\ node_list[i].threshold = threshold

NodeCheckIndex(node_list, attribute, threshold) ==
    CHOOSE i \in 1..Len(node_list) :
        node_list[i].attribute = attribute /\ node_list[i].threshold = threshold

EmptyCompile ==
    [leaf_v_list |-> <<>>, leaf_pos_list |-> <<>>, node_list |-> <<>>,
     leaf_count |-> <<0>>, err |-> FALSE, ret |-> <<>>]

RECURSIVE dfs(_, _, _, _, _, _)
dfs(st, tree, nid, treeid, root, neg) ==
    IF st.err THEN st
    ELSE IF tree[nid].leaf THEN
        [st EXCEPT
            !.leaf_v_list = Append(@, IF neg THEN -tree[nid].value ELSE tree[nid].value),
            !.leaf_pos_list = Append(@, [treeid |-> treeid, nodeid |-> nid]),
            !.ret = << Len(st.leaf_v_list) + 1 >>]
    ELSE
        LET attribute == Attr(tree[nid].split)
            threshold == Round(tree[nid].split_condition)
            left_subtree == Resolve(tree, nid, tree[nid].yes)
            right_subtree == Resolve(tree, nid, tree[nid].no)
        IN  IF left_subtree = NONE \/ right_subtree = NONE
            THEN [st EXCEPT !.err = TRUE]
            ELSE
                LET s1 == dfs(st, tree, left_subtree, treeid, FALSE, neg)
                    s2 == dfs(s1, tree, right_subtree, treeid, FALSE, neg)
                    left_leaves == s1.ret
                    right_leaves == s2.ret
                IN  IF s2.err THEN s2
                    ELSE IF ~InNodeCheck(s2.node_list, attribute, threshold)
                    THEN [s2 EXCEPT
                            !.node_list = Append(@, node_wrapper(treeid, nid, attribute,
                                              threshold, left_leaves, right_leaves, root)),
                            !.ret = left_leaves \o right_leaves]
                    ELSE [s2 EXCEPT
                            !.node_list[NodeCheckIndex(s2.node_list, attribute, threshold)] =
                                add_leaves(@, treeid, nid, left_leaves, right_leaves, root),
                            !.ret = left_leaves \o right_leaves]

\* for i, tree in enumerate(trees): dfs(tree, i + offset, root=True, neg);
\*                                  self.leaf_count.append(len(self.leaf_v_list))
RECURSIVE CompileTrees(_, _, _, _, _)
CompileTrees(st, trees, i, offset, neg) ==
    IF i > Len(trees) \/ st.err THEN st
    ELSE
        LET s1 == dfs(st, trees[i], 0, (i - 1) + offset, TRUE, neg)
        IN  IF s1.err THEN s1
            ELSE CompileTrees([s1 EXCEPT !.leaf_count = Append(@, Len(s1.leaf_v_list))],
                              trees, i + 1, offset, neg)

\* the compiler pass of __init__, in binary or in pairwise (pos/neg) mode
Compile(binary, json, pos_json_input, neg_json_input) ==
    IF binary
    THEN CompileTrees(EmptyCompile, json, 1, 0, FALSE)
    ELSE CompileTrees(CompileTrees(EmptyCompile, pos_json_input, 1, 0, FALSE),
                      neg_json_input, 1, Len(pos_json_input), TRUE)

-----------------------------------------------------------------------------
(* The constraint model builder.  A linear constraint is                   *)
(*   sum(pcoef[i] * p[i]) + sum(lcoef[j] * l[j]) + bcoef * B  sense  rhs   *)
(* over the binary split variables p, the leaf variables l and B.          *)

Name(kind, a, b) == [kind |-> kind, a |-> a, b |-> b]

Constr(name, pcoef, lcoef, bcoef, sense, rhs) ==
    [name |-> name, pcoef |-> pcoef, lcoef |-> lcoef, bcoef |-> bcoef,
     sense |-> sense, rhs |-> rhs]

Zeros(n) == [i \in 1..n |-> 0]

\* the coefficient vector of LinExpr([1] * len(idx), [vars[i] for i in idx])
Ones(n, idx) == [i \in 1..n |-> Cardinality({k \in 1..Len(idx) : idx[k] = i})]

\* self.pdict as filled by the loop over node_list: attribute -> [(threshold, var)]
RECURSIVE FillPdict(_, _, _, _)
FillPdict(node_list, i, pdict, pkeys) ==
    IF i > Len(node_list) THEN [pdict |-> pdict, pkeys |-> pkeys]
    ELSE
        LET a == node_list[i].attribute
            item == [threshold |-> node_list[i].threshold, var |-> i]
        IN  IF a \in DOMAIN pdict
            THEN FillPdict(node_list, i + 1, [pdict EXCEPT ![a] = Append(@, item)], pkeys)
            ELSE FillPdict(node_list, i + 1, (a :> << item >>) @@ pdict, Append(pkeys, a))

\* SortByThreshold that leaves the list in the order of node_list
\* (what C17_Lands must tell apart from SortByThreshold)
SortNot(items) == items

\* list.sort(key=lambda tup: tup[0]); the thresholds of one feature are distinct
RECURSIVE SortByThreshold(_)
SortByThreshold(items) ==
    IF Len(items) <= 1 THEN items
    ELSE
        LET k == CHOOSE k \in 1..Len(items) :
                    \A j \in 1..Len(items) : items[k].threshold <= items[j].threshold
            rest == [j \in 1..(Len(items) - 1) |-> IF j < k THEN items[j] ELSE items[j + 1]]
        IN  << items[k] >> \o SortByThreshold(rest)

\* min over i of pdict[key][i + 1][0] - pdict[key][i][0], starting from min_diff = 1000
RECURSIVE MinDiff(_, _, _)
MinDiff(items, i, min_diff) ==
    IF i >= Len(items) THEN min_diff
    ELSE MinDiff(items, i + 1, Min2(min_diff, items[i + 1].threshold - items[i].threshold))

\* ShrinkGuard that never shrinks (what C14_GuardShrink must tell apart from
\* ShrinkGuard)
ShrinkGuardNever(guard_val, min_diff) == guard_val

\* if min_diff < 2 * self.guard_val: self.guard_val = min_diff / 3
ShrinkGuard(guard_val, min_diff) ==
    IF min_diff < 2 * guard_val THEN min_diff \div 3 ELSE guard_val

\* the p_consis constraints of one feature: pdict[key][i] <= pdict[key][i + 1]
PConsis(nP, nL, key, items) ==
    [i \in 1..(Len(items) - 1) |->
        Constr(Name("p_consis_attr", key, i - 1),
               [v \in 1..nP |-> IF v = items[i].var THEN 1
                                ELSE IF v = items[i + 1].var THEN -1 ELSE 0],
               Zeros(nL), 0, "<=", 0)]

\* the loop "for key in self.pdict.keys()": sort, ordering constraints, guard shrink
RECURSIVE OrderFeatures(_, _, _, _, _, _, _)
OrderFeatures(pkeys, k, pdict, guard_val, constrs, nP, nL) ==
    IF k > Len(pkeys) THEN [pdict |-> pdict, guard_val |-> guard_val, constrs |-> constrs]
    ELSE
        LET key == pkeys[k]
        IN  IF Len(pdict[key]) > 1
            THEN
                LET sorted == SortByThreshold(pdict[key])
                    min_diff == MinDiff(sorted, 1, MIN_DIFF_INIT)
                IN  OrderFeatures(pkeys, k + 1, [pdict EXCEPT ![key] = sorted],
                                  ShrinkGuard(guard_val, min_diff),
                                  constrs \o PConsis(nP, nL, key, sorted), nP, nL)
            ELSE OrderFeatures(pkeys, k + 1, pdict, guard_val, constrs, nP, nL)

\* all leaves of a tree sum up to 1
LeafSum(nP, nL, leaf_count) ==
    [i \in 1..(Len(leaf_count) - 1) |->
        Constr(Name("leaf_sum_one_for_tree", i - 1, 0), Zeros(nP),
               [j \in 1..nL |-> IF j > leaf_count[i] /\ j <= leaf_count[i + 1] THEN 1 ELSE 0],
               0, "==", 1)]

\* Coupling without the "right" inequality of a split below the root
\* (what C5_Exact must tell apart from Coupling)
CouplingLeftOnly(nP, nL, j, k, entry) ==
    IF entry.root
    THEN << Constr(Name("root_left", j - 1, k - 1),
                   [v \in 1..nP |-> IF v = j THEN -1 ELSE 0], Ones(nL, entry.left), 0, "==", 0),
            Constr(Name("root_right", j - 1, k - 1),
                   [v \in 1..nP |-> IF v = j THEN 1 ELSE 0], Ones(nL, entry.right), 0, "==", 1) >>
    ELSE << Constr(Name("left", j - 1, k - 1),
                   [v \in 1..nP |-> IF v = j THEN -1 ELSE 0], Ones(nL, entry.left), 0, "<=", 0) >>

\* the two node-leaf constraints of occurrence k of unique split j
Coupling(nP, nL, j, k, entry) ==
    IF entry.root
    THEN << Constr(Name("root_left", j - 1, k - 1),
                   [v \in 1..nP |-> IF v = j THEN -1 ELSE 0], Ones(nL, entry.left), 0, "==", 0),
            Constr(Name("root_right", j - 1, k - 1),
                   [v \in 1..nP |-> IF v = j THEN 1 ELSE 0], Ones(nL, entry.right), 0, "==", 1) >>
    ELSE << Constr(Name("left", j - 1, k - 1),
                   [v \in 1..nP |-> IF v = j THEN -1 ELSE 0], Ones(nL, entry.left), 0, "<=", 0),
            Constr(Name("right", j - 1, k - 1),
                   [v \in 1..nP |-> IF v = j THEN 1 ELSE 0], Ones(nL, entry.right), 0, "<=", 1) >>

\* for j in range(len(self.node_list)): for k in range(len(leaves_lists)): ...
RECURSIVE NodeLeaves(_, _, _, _, _)
NodeLeaves(node_list, j, k, nP, nL) ==
    IF j > Len(node_list) THEN <<>>
    ELSE IF k > Len(node_list[j].leaves_lists) THEN NodeLeaves(node_list, j + 1, 1, nP, nL)
    ELSE Coupling(nP, nL, j, k, node_list[j].leaves_lists[k])
            \o NodeLeaves(node_list, j, k + 1, nP, nL)

\* the value of the left-hand side of c at (p, l), the leaf values being l[j] / den
Lhs(c, p, l, den) == den * Dot(c.pcoef, p) + Dot(c.lcoef, l)

\* constraint c at (p, l), the leaf values being l[j] / den
Satisfies(c, p, l, den) ==
    CASE c.sense = "<=" -> Lhs(c, p, l, den) <= den * c.rhs
      [] c.sense = ">=" -> Lhs(c, p, l, den) >= den * c.rhs
      [] OTHER          -> Lhs(c, p, l, den) = den * c.rhs

\* the constraints the queries replace by name, as against those of the constructor
PerSample(name) == name.kind \in {"mislabel", "linf_constr_attr"}

\* a constraint over the split variables alone
SplitOnly(c) == \A j \in 1..Len(c.lcoef) : c.lcoef[j] = 0

\* the assignments that satisfy the constructor's constraints: the split
\* assignments that satisfy the constraints over the split variables alone,
\* each with the leaf assignments that satisfy the others.  The queries only
\* replace the per-sample constraints, so the set is worked out once, when
\* the model is built, and kept with the model (m.region).
Region(m) ==
    LET static == {i \in 1..Len(m.constrs) : ~PerSample(m.constrs[i].name)}
        chain == {i \in static : SplitOnly(m.constrs[i])}
        P == {p \in [1..m.nP -> {0, 1}] :
                \A i \in chain : Satisfies(m.constrs[i], p, Zeros(m.nL), 1)}
    IN  UNION { { [p |-> p, l |-> l] :
                    l \in {l \in [1..m.nL -> {0, 1}] :
                              \A i \in static \ chain : Satisfies(m.constrs[i], p, l, 1)} } :
                p \in P }

NoModel == [created |-> FALSE]

NoAttacker == [built |-> FALSE, m |-> NoModel]

\* if epsilon: B has ub = epsilon - 0.0001; elif order == inf: B is unbounded
HasB(epsilon, order) == (epsilon /= NONE /\ epsilon /= 0) \/ order = INF
HasUb(epsilon) == epsilon /= NONE /\ epsilon /= 0

\* an optional list of trees: None, or the list
NoJson == [some |-> FALSE, trees |-> <<>>]
Json(trees) == [some |-> TRUE, trees |-> trees]

\* KantchelianAttack.__init__
KantchelianAttack(json, epsilon, order, pos_json_input, neg_json_input, pred_threshold) ==
    LET binary == (~pos_json_input.some) \/ (~neg_json_input.some)
        c == Compile(binary, json.trees, pos_json_input.trees, neg_json_input.trees)
        nP == Len(c.node_list)
        nL == Len(c.leaf_v_list)
        filled == FillPdict(c.node_list, 1, << >>, <<>>)
        ordered == OrderFeatures(filled.pkeys, 1, filled.pdict, GUARD_VAL, <<>>, nP, nL)
    IN  IF c.err THEN NoAttacker
        ELSE
        [built |-> TRUE,
         binary |-> binary,
         pred_threshold |-> pred_threshold,
         epsilon |-> epsilon,
         order |-> order,
         json_model |-> json,
         pos_json_input |-> pos_json_input,
         neg_json_input |-> neg_json_input,
         guard_val |-> ordered.guard_val,
         node_list |-> c.node_list,
         leaf_v_list |-> c.leaf_v_list,
         leaf_pos_list |-> c.leaf_pos_list,
         leaf_count |-> c.leaf_count,
         pdict |-> ordered.pdict,
         pkeys |-> filled.pkeys,
         m |-> [created |-> TRUE, nP |-> nP, nL |-> nL,
                hasB |-> HasB(epsilon, order),
                hasUb |-> HasUb(epsilon),
                ub |-> epsilon - EPS_MARGIN,
                constrs |-> ordered.constrs \o LeafSum(nP, nL, c.leaf_count)
                               \o NodeLeaves(c.node_list, 1, 1, nP, nL),
                objective |-> [kind |-> "none", coefs |-> Zeros(nP), c |-> 0],
                region |-> Region([nP |-> nP, nL |-> nL,
                                   constrs |-> ordered.constrs
                                       \o LeafSum(nP, nL, c.leaf_count)
                                       \o NodeLeaves(c.node_list, 1, 1, nP, nL)])]]

-----------------------------------------------------------------------------
(* The solver.  An assignment gives every split variable a value in {0,1}  *)
(* and every leaf variable a value in {0,1} (the constructor's constraints *)
(* leave the continuous leaf variables no other value: C5_Exact); B is     *)
(* continuous with lower bound 0, so an assignment is feasible when the    *)
(* least B its constraints allow is within B's upper bound.                *)

\* the least B >= 0 that satisfies the constraints  expr - B <= rhs
NeedB(m, a) ==
    LET RECURSIVE Go(_, _)
        Go(i, b) == IF i > Len(m.constrs) THEN b
                    ELSE IF m.constrs[i].bcoef = 0 THEN Go(i + 1, b)
                    ELSE Go(i + 1, Max2(b, Lhs(m.constrs[i], a.p, a.l, 1) - m.constrs[i].rhs))
    IN  Go(1, 0)

\* the feasible assignments of m, region being m.region
FeasibleIn(m, region) ==
    {a \in region :
        /\ \A i \in 1..Len(m.constrs) :
              (PerSample(m.constrs[i].name) /\ m.constrs[i].bcoef = 0)
                  => Satisfies(m.constrs[i], a.p, a.l, 1)
        /\ m.hasUb => NeedB(m, a) <= m.ub}

ObjValue(m, a) ==
    CASE m.objective.kind = "B"   -> NeedB(m, a)
      [] m.objective.kind = "lin" -> Dot(m.objective.coefs, a.p) + m.objective.c
      [] OTHER                    -> 0

\* m.optimize(): the optimal assignments (empty: status 3, infeasible)
OptimalIn(m, region) ==
    LET F == FeasibleIn(m, region)
    IN  {a \in F : \A b \in F : ObjValue(m, a) <= ObjValue(m, b)}

-----------------------------------------------------------------------------
(* Named constraints *)

\* RemoveByName that takes out the oldest constraint of the model whatever
\* its name (what C12_Frame must tell apart from RemoveByName)
RemoveOldest(constrs, name) == IF constrs = <<>> THEN <<>> ELSE Tail(constrs)

\* c = self.m.getConstrByName(name); self.m.remove(c)   (nothing when absent)
RECURSIVE RemoveByName(_, _)
RemoveByName(constrs, name) ==
    IF constrs = <<>> THEN <<>>
    ELSE IF Head(constrs).name = name THEN Tail(constrs)
    ELSE << Head(constrs) >> \o RemoveByName(Tail(constrs), name)

\* ReplaceConstr without the removal: the constraint is only added
\* (what C11_Replaced must tell apart from ReplaceConstr)
ReplaceConstrKeeping(m, c) == [m EXCEPT !.constrs = Append(@, c)]

\* try: remove the constraint of that name; then addConstr(..., name=...)
ReplaceConstr(m, c) == [m EXCEPT !.constrs = Append(RemoveByName(@, c.name), c)]

\* Mislabel with the two directions exchanged
\* (what C13_Scenario must tell apart from Mislabel)
MislabelSameSide(a, label) ==
    IF (~a.binary) \/ label = 1
    THEN Constr(Name("mislabel", 0, 0), Zeros(a.m.nP), a.leaf_v_list, 0, ">=",
                a.pred_threshold + a.guard_val)
    ELSE Constr(Name("mislabel", 0, 0), Zeros(a.m.nP), a.leaf_v_list, 0, "<=",
                a.pred_threshold - a.guard_val)

\* the "mislabel" constraint
Mislabel(a, label) ==
    IF (~a.binary) \/ label = 1
    THEN Constr(Name("mislabel", 0, 0), Zeros(a.m.nP), a.leaf_v_list, 0, "<=",
                a.pred_threshold - a.guard_val)
    ELSE Constr(Name("mislabel", 0, 0), Zeros(a.m.nP), a.leaf_v_list, 0, ">=",
                a.pred_threshold + a.guard_val)

-----------------------------------------------------------------------------
(* The distance linearizer *)

Pow(d, rho) == CASE rho = 0 -> 1 [] rho = 1 -> d [] OTHER -> d * d

\* w[i - 1] of the source for i = k: the potential of the interval
\* [axis[k - 1], axis[k]), axis = [-inf] + thresholds + [inf]
Potential(items, xv, guard_val, rho, k) ==
    LET n == Len(items)
        below_upper == k = n + 1 \/ xv < items[k].threshold
        above_lower == k = 1 \/ xv >= items[k - 1].threshold
    IN  IF below_upper /\ above_lower THEN 0
        ELSE IF below_upper THEN Pow(Abs(xv - items[k - 1].threshold), rho)
        ELSE Pow(Abs(xv - items[k].threshold + guard_val), rho)

W(items, xv, guard_val, rho) ==
    [k \in 1..(Len(items) + 1) |-> Potential(items, xv, guard_val, rho, k)]

\* Differenced that leaves the potentials as they are
\* (what C16_Telescoping must tell apart from Differenced)
DifferencedNot(w) == w

\* for i in range(len(w) - 1): w[i] -= w[i + 1]
Differenced(w) ==
    [k \in 1..Len(w) |-> IF k < Len(w) THEN w[k] - w[k + 1] ELSE w[k]]

\* the coefficient of every split variable in LinExpr(w[:-1], [item[1] for item in pdict[key]])
CoefOnVars(nP, items, d) ==
    [v \in 1..nP |-> SumSeq([k \in 1..Len(items) |-> IF items[k].var = v THEN d[k] ELSE 0])]

\* LinExpr(w[:-1], vars) + w[-1] <= self.B, named linf_constr_attr<key>
LinfConstr(a, x, key) ==
    LET d == Differenced(W(a.pdict[key], x[key], a.guard_val, 1))
    IN  Constr(Name("linf_constr_attr", key, 0), CoefOnVars(a.m.nP, a.pdict[key], d),
               Zeros(a.m.nL), -1, "<=", -d[Len(d)])

RECURSIVE ReplaceLinf(_, _, _, _)
ReplaceLinf(a, m, x, k) ==
    IF k > Len(a.pkeys) THEN m
    ELSE ReplaceLinf(a, ReplaceConstr(m, LinfConstr(a, x, a.pkeys[k])), x, k + 1)

\* obj_coeff_list / obj_var_list / obj_c of the orders other than inf
RECURSIVE SumObjective(_, _, _, _)
SumObjective(a, x, k, obj) ==
    IF k > Len(a.pkeys) THEN obj
    ELSE
        LET key == a.pkeys[k]
            d == Differenced(W(a.pdict[key], x[key], a.guard_val, a.order))
            co == CoefOnVars(a.m.nP, a.pdict[key], d)
        IN  SumObjective(a, x, k + 1,
                [obj EXCEPT !.coefs = [v \in 1..a.m.nP |-> obj.coefs[v] + co[v]],
                            !.c = @ + d[Len(d)]])

-----------------------------------------------------------------------------
(* The verifier *)

\* the child check() follows for a link: children[0] or children[1]
CheckChild(tree, nid, link) ==
    IF tree[nid].children[1] = link THEN tree[nid].children[1]
    ELSE IF tree[nid].children[2] = link THEN tree[nid].children[2]
    ELSE NONE

RECURSIVE ReachedLeaf(_, _, _)
ReachedLeaf(tree, nid, x) ==
    IF tree[nid].leaf THEN nid
    ELSE IF x[Attr(tree[nid].split)] < tree[nid].split_condition
    THEN ReachedLeaf(tree, CheckChild(tree, nid, tree[nid].yes), x)
    ELSE ReachedLeaf(tree, CheckChild(tree, nid, tree[nid].no), x)

\* check(x, json_file): the sum of the reached leaves' values
check(x, json_file) ==
    SumSeq([i \in 1..Len(json_file) |-> json_file[i][ReachedLeaf(json_file[i], 0, x)].value])

PredOf(value, threshold) == IF value >= threshold THEN 1 ELSE 0

\* the prediction optimal_adversarial_example computes before and after the attack
Prediction(a, x) ==
    IF a.binary THEN PredOf(check(x, a.json_model.trees), a.pred_threshold)
    ELSE PredOf(check(x, a.pos_json_input.trees), check(x, a.neg_json_input.trees))

-----------------------------------------------------------------------------
(* The feasibility query *)

\* KantchelianAttack.attack(X, label): the attacker afterwards and the value returned
attackIn(a, X, label, region) ==
    LET m1 == ReplaceConstr(a.m, Mislabel(a, label))
        m2 == ReplaceLinf(a, m1, X, 1)
        m3 == [m2 EXCEPT !.objective = [kind |-> "const", coefs |-> Zeros(a.m.nP), c |-> 0]]
    IN  [a |-> [a EXCEPT !.m = m3],
         robust |-> FeasibleIn(m3, region) = {}]   \* status == 3

attack(a, X, label) == attackIn(a, X, label, a.m.region)

-----------------------------------------------------------------------------
(* The minimal-distance query *)

\* Nudge with the opposite reading of the variable: 1 as feature >= threshold
\* (what C8_Polarity must tell apart from Nudge)
NudgeSwapped(xv, pval, threshold, guard_val) ==
    IF pval = 1 /\ xv < threshold THEN threshold + guard_val
    ELSE IF pval = 0 /\ xv >= threshold THEN threshold - guard_val
    ELSE xv

\* one pass of the body of the reconstruction loop for one split
Nudge(xv, pval, threshold, guard_val) ==
    IF pval = 1 /\ xv >= threshold THEN threshold - guard_val
    ELSE IF pval = 0 /\ xv < threshold THEN threshold + guard_val
    ELSE xv

\* for key in self.pdict.keys(): for node in self.pdict[key]: ...
RECURSIVE Reconstruct(_, _, _, _, _, _)
Reconstruct(a, p, k, j, x, steps) ==
    IF k > Len(a.pkeys) THEN [x |-> x, steps |-> steps]
    ELSE IF j > Len(a.pdict[a.pkeys[k]]) THEN Reconstruct(a, p, k + 1, 1, x, steps)
    ELSE
        LET key == a.pkeys[k]
            node == a.pdict[key][j]
            nv == Nudge(x[key], p[node.var], node.threshold, a.guard_val)
        IN  Reconstruct(a, p, k, j + 1, [x EXCEPT ![key] = nv],
                        Append(steps, [key |-> key, threshold |-> node.threshold,
                                       var |-> node.var, p |-> p[node.var],
                                       before |-> x[key], after |-> nv]))

\* GoesOn without the early return (what C7_Frame must tell apart from GoesOn)
GoesOnAlways(pred, label) == TRUE

\* whether the query goes on to the solver: the prediction on the sample is the label
GoesOn(pred, label) == pred = label

\* the model as optimal_adversarial_example leaves it before m.optimize()
Prepared(a, sample, label) ==
    LET m1 == ReplaceConstr(a.m, Mislabel(a, label))
    IN  IF a.order /= INF
        THEN [m1 EXCEPT !.objective =
                  SumObjective(a, sample, 1, [kind |-> "lin", coefs |-> Zeros(a.m.nP), c |-> 0])]
        ELSE [ReplaceLinf(a, m1, sample, 1) EXCEPT
                  !.objective = [kind |-> "B", coefs |-> Zeros(a.m.nP), c |-> 0]]

Outcome(a, ret, x, early, solved, p, steps) ==
    [a |-> a, ret |-> ret, x |-> x, early |-> early, solved |-> solved,
     p |-> p, steps |-> steps]

\* KantchelianAttack.optimal_adversarial_example(sample, label): every outcome
\* (attacker afterwards, value returned) the solver's choice of optimum allows
optimalIn(a, sample, label, region) ==
    IF ~GoesOn(Prediction(a, sample), label)
    THEN {Outcome(a, "x", sample, TRUE, FALSE, <<>>, <<>>)}
    ELSE
        LET m2 == Prepared(a, sample, label)
            a2 == [a EXCEPT !.m = m2]
            S == OptimalIn(m2, region)
        IN  IF S = {}
            THEN {Outcome(a2, "None", sample, FALSE, TRUE, <<>>, <<>>)}
            ELSE {LET r == Reconstruct(a2, sol.p, 1, 1, sample, <<>>)
                  IN  Outcome(a2, "x", r.x, FALSE, TRUE, sol.p, r.steps) : sol \in S}

optimal_adversarial_example(a, sample, label) == optimalIn(a, sample, label, a.m.region)

-----------------------------------------------------------------------------
(* The inputs: ensembles, constructor arguments, samples *)

\* one split at the root, the "yes" (feature < threshold) leaf first
Stump(ref, thr, yes_value, no_value) ==
    (0 :> SplitNode(ref, thr, 1, 2, <<1, 2>>)) @@ (1 :> LeafNode(yes_value))
        @@ (2 :> LeafNode(no_value))

\* the same with the children listed "no" first
StumpNoFirst(ref, thr, yes_value, no_value) ==
    (0 :> SplitNode(ref, thr, 1, 2, <<2, 1>>)) @@ (1 :> LeafNode(yes_value))
        @@ (2 :> LeafNode(no_value))

\* a root split whose "yes" child is a split and whose "no" child is a leaf
Chain(ref1, thr1, ref2, thr2, yes_yes, yes_no, no_value) ==
    (0 :> SplitNode(ref1, thr1, 1, 2, <<1, 2>>)) @@ (1 :> SplitNode(ref2, thr2, 3, 4, <<3, 4>>))
        @@ (2 :> LeafNode(no_value)) @@ (3 :> LeafNode(yes_yes)) @@ (4 :> LeafNode(yes_no))

\* a root split whose "yes" link names no child
MissingYes(ref, thr, yes_value, no_value) ==
    (0 :> SplitNode(ref, thr, 3, 2, <<1, 2>>)) @@ (1 :> LeafNode(yes_value))
        @@ (2 :> LeafNode(no_value))

\* a nested split whose "no" link names no child
MissingNoBelow(ref1, thr1, ref2, thr2, yes_yes, yes_no, no_value) ==
    (0 :> SplitNode(ref1, thr1, 1, 2, <<1, 2>>)) @@ (1 :> SplitNode(ref2, thr2, 3, 5, <<3, 4>>))
        @@ (2 :> LeafNode(no_value)) @@ (3 :> LeafNode(yes_yes)) @@ (4 :> LeafNode(yes_no))

TreeA == Stump(IntRef(0), 30, -ONE, ONE)
TreeB == StumpNoFirst(StrRef(0), 31, ONE, -ONE)
TreeC == Chain(IntRef(0), 33, IntRef(1), 30, -ONE, ONE, ONE)
TreeD == Stump(IntRef(0), 5 * ONE, -ONE, ONE)
TreeE == Chain(IntRef(0), 90, StrRef(0), 30, ONE, -ONE, ONE)
TreeM == MissingYes(IntRef(0), 30, -ONE, ONE)
TreeN == MissingNoBelow(IntRef(0), 33, IntRef(1), 30, -ONE, ONE, ONE)

\* a split of feature 0 at the root, a second split of feature 0 in its "no"
\* child (met by dfs before the root's own), and below it two splits of
\* feature 1: the gaps are 18 units for feature 1 and 3 units for feature 0
TreeG ==
    (0 :> SplitNode(IntRef(0), 30, 1, 2, <<1, 2>>)) @@ (1 :> LeafNode(-ONE))
        @@ (2 :> SplitNode(IntRef(0), 33, 3, 4, <<3, 4>>)) @@ (4 :> LeafNode(ONE))
        @@ (3 :> SplitNode(IntRef(1), 48, 5, 6, <<5, 6>>)) @@ (6 :> LeafNode(ONE))
        @@ (5 :> SplitNode(IntRef(1), 30, 7, 8, <<7, 8>>)) @@ (7 :> LeafNode(ONE))
        @@ (8 :> LeafNode(-ONE))

\* the same split of feature 0 under both children of the root
TreeH ==
    (0 :> SplitNode(IntRef(1), 30, 1, 2, <<1, 2>>))
        @@ (1 :> SplitNode(IntRef(0), 30, 3, 4, <<3, 4>>))
        @@ (2 :> SplitNode(IntRef(0), 30, 5, 6, <<5, 6>>))
        @@ (3 :> LeafNode(-ONE)) @@ (4 :> LeafNode(ONE))
        @@ (5 :> LeafNode(ONE)) @@ (6 :> LeafNode(-ONE))

BinaryEnsembles ==
    { <<TreeA>>, <<TreeB>>, <<TreeC>>, <<TreeD>>, <<TreeE>>, <<TreeM>>, <<TreeN>>,
      <<TreeA, TreeB>>, <<TreeA, TreeC>>, <<TreeB, TreeC>>, <<TreeA, TreeN>>,
      <<TreeG>>, <<TreeA, TreeH>> }

Features == {0, 1}

\* the number of sample positions on the small grid
XSteps == 2

Samples ==
    { [f \in Features |-> IF f = 0 THEN 30 * (k - 1) ELSE 15 * (k % 3)] : k \in 1..XSteps }
        \cup { [f \in Features |-> IF f = 0 THEN 3 * ONE ELSE 0] }

Labels == {0, 1}

\* the radii: 0.0, 0.000105 and 1.0
Epsilons == {0, EPS_MARGIN + GUARD_VAL, ONE}

\* (epsilon, order): epsilon is given only with order inf (the constructor's assert)
BinaryArgs ==
    { [epsilon |-> e, order |-> INF, pred_threshold |-> 0, n_classes |-> 2] :
          e \in {NONE} \cup Epsilons }
        \cup { [epsilon |-> NONE, order |-> 1, pred_threshold |-> 0, n_classes |-> 2] }

ZeroSample == [f \in Features |-> 0]

NoLast ==
    [op |-> "none", sample |-> ZeroSample, label |-> 0, ret |-> "none", x |-> ZeroSample,
     early |-> FALSE, solved |-> FALSE, p |-> <<>>, steps |-> <<>>, tried |-> <<>>]

-----------------------------------------------------------------------------
(* The binary attacker: construction, then any sequence of queries *)

Init ==
    /\ json_model \in BinaryEnsembles
    /\ args \in BinaryArgs
    /\ pc = "init"
    /\ att = NoAttacker
    /\ binary_attackers = <<>>
    /\ last = NoLast

\* attack = KantchelianAttack(json_model, epsilon, order=..., pred_threshold=...)
Construct ==
    /\ pc = "init"
    /\ att' = KantchelianAttack(Json(json_model), args.epsilon, args.order, NoJson, NoJson,
                                args.pred_threshold)
    /\ pc' = IF att'.built THEN "ready" ELSE "failed"
    /\ UNCHANGED <<json_model, args, binary_attackers, last>>

\* attack.attack(sample, label), as attack_epsilon_feasibility calls it (order inf)
Attack ==
    /\ pc = "ready"
    /\ att.order = INF
    /\ LET region == att.m.region
       IN  \E sample \in Samples, label \in Labels :
              LET r == attackIn(att, sample, label, region)
              IN  /\ att' = r.a
                  /\ last' = [NoLast EXCEPT !.op = "attack", !.sample = sample,
                                  !.label = label,
                                  !.ret = IF r.robust THEN "robust" ELSE "not_robust",
                                  !.solved = TRUE]
    /\ UNCHANGED <<json_model, args, pc, binary_attackers>>

\* attack.optimal_adversarial_example(sample, label)
OptimalAdversarialExample ==
    /\ pc = "ready"
    /\ LET region == att.m.region
       IN  \E sample \in Samples, label \in Labels :
              \E r \in optimalIn(att, sample, label, region) :
                  /\ att' = r.a
                  /\ last' = [NoLast EXCEPT !.op = "optimal", !.sample = sample,
                                  !.label = label, !.ret = r.ret, !.x = r.x,
                                  !.early = r.early, !.solved = r.solved, !.p = r.p,
                                  !.steps = r.steps]
    /\ UNCHANGED <<json_model, args, pc, binary_attackers>>

Next == Construct \/ Attack \/ OptimalAdversarialExample

Spec == Init /\ [][Next]_vars

-----------------------------------------------------------------------------
(* The multiclass decomposition *)

\* one_vs_all_models[c]: the trees json_model[i] with i % n_classes = c
OneVsAll(json, n_classes, c) ==
    LET RECURSIVE Go(_)
        Go(i) == IF i > Len(json) THEN <<>>
                 ELSE IF (i - 1) % n_classes = c THEN << json[i] >> \o Go(i + 1)
                 ELSE Go(i + 1)
    IN  Go(1)

\* the attacker of class_label against other_label
PairAttacker(json, n_classes, order, pred_threshold, class_label, other_label) ==
    KantchelianAttack(NoJson, NONE, order, Json(OneVsAll(json, n_classes, class_label)),
                      Json(OneVsAll(json, n_classes, other_label)), pred_threshold)

\* the body of "for other_label in range(self.n_classes)" in __init__: what it
\* appends to attackers (None is NoAttacker)
Appended(json, n_classes, order, pred_threshold, class_label, other_label) ==
    IF class_label = other_label
    THEN << NoAttacker,
            PairAttacker(json, n_classes, order, pred_threshold, class_label, other_label) >>
    ELSE << PairAttacker(json, n_classes, order, pred_threshold, class_label, other_label) >>

\* self.binary_attackers[class_label]
RECURSIVE AttackersOf(_, _, _, _, _, _)
AttackersOf(json, n_classes, order, pred_threshold, class_label, other_label) ==
    IF other_label >= n_classes THEN <<>>
    ELSE Appended(json, n_classes, order, pred_threshold, class_label, other_label)
            \o AttackersOf(json, n_classes, order, pred_threshold, class_label, other_label + 1)

\* KantchelianAttackMultiClass.__init__ (n_classes > 2)
KantchelianAttackMultiClass(json, n_classes, order, pred_threshold) ==
    [c \in 1..n_classes |-> AttackersOf(json, n_classes, order, pred_threshold, c - 1, 0)]

\* np.linalg.norm(sample - adv_example, ord=order); for order 2 the square of it
Norm(sample, x, order) ==
    LET F == DOMAIN sample
        RECURSIVE MaxOver(_)
        MaxOver(S) == IF S = {} THEN 0
                      ELSE LET f == CHOOSE f \in S : TRUE
                           IN  Max2(Abs(sample[f] - x[f]), MaxOver(S \ {f}))
        RECURSIVE SumOver(_)
        SumOver(S) == IF S = {} THEN 0
                      ELSE LET f == CHOOSE f \in S : TRUE
                           IN  Pow(Abs(sample[f] - x[f]), order) + SumOver(S \ {f})
    IN  IF order = INF THEN MaxOver(F)
        ELSE IF order = 0 THEN Cardinality({f \in F : sample[f] /= x[f]})
        ELSE SumOver(F)

NoBest == [found |-> FALSE, x |-> ZeroSample, dist |-> 0]

\* the attacker the loop of optimal_adversarial_example takes for other_label:
\* self.binary_attackers[label][other_label]
TakenAt(attackers, other_label) == other_label + 1

\* the loop "for other_label in range(self.n_classes)" of
\* KantchelianAttackMultiClass.optimal_adversarial_example: every final
\* (attackers of label, best example, queries made) the solver's choices allow
RECURSIVE MultiClassLoop(_, _, _, _, _, _, _)
MultiClassLoop(attackers, n_classes, order, sample, label, other_label, acc) ==
    IF other_label >= n_classes THEN {[attackers |-> attackers, best |-> acc.best,
                                        tried |-> acc.tried]}
    ELSE IF other_label = label
    THEN MultiClassLoop(attackers, n_classes, order, sample, label, other_label + 1, acc)
    ELSE
        LET at == TakenAt(attackers, other_label)
            attacker == attackers[at]
        IN  UNION {
              LET distance == Norm(sample, r.x, order)
                  better == r.ret /= "None" /\ (~acc.best.found \/ distance < acc.best.dist)
                  entry == [other_label |-> other_label,
                            pos |-> attacker.pos_json_input.trees,
                            neg |-> attacker.neg_json_input.trees,
                            ret |-> r.ret, x |-> r.x, dist |-> distance]
              IN  MultiClassLoop([attackers EXCEPT ![at] = r.a], n_classes, order, sample,
                                 label, other_label + 1,
                                 [best |-> IF better
                                           THEN [found |-> TRUE, x |-> r.x, dist |-> distance]
                                           ELSE acc.best,
                                  tried |-> Append(acc.tried, entry)])
              : r \in optimal_adversarial_example(attacker, sample, 1) }

-----------------------------------------------------------------------------
(* The multiclass attacker: construction, then any sequence of queries *)

LeafOnly(v) == (0 :> LeafNode(v))

MultiClassTrees ==
    { LeafOnly(0), Stump(IntRef(0), 30, -ONE, ONE), Stump(IntRef(1), 31, ONE, -ONE) }

\* one tree per class, three classes
MultiClassEnsembles ==
    { <<t0, t1, t2>> : t0 \in MultiClassTrees, t1 \in MultiClassTrees, t2 \in MultiClassTrees }

\* pred_threshold: the default 0.0, and 0.5 and -0.5
PredThresholds == {0, ONE \div 2, 0 - (ONE \div 2)}

MultiClassArgs ==
    { [epsilon |-> NONE, order |-> INF, pred_threshold |-> pt, n_classes |-> 3] :
          pt \in PredThresholds }

InitMC ==
    /\ json_model \in MultiClassEnsembles
    /\ args \in MultiClassArgs
    /\ pc = "init"
    /\ att = NoAttacker
    /\ binary_attackers = <<>>
    /\ last = NoLast

\* attack = KantchelianAttackMultiClass(json_model, n_classes, order=..., pred_threshold=...)
ConstructMC ==
    /\ pc = "init"
    /\ binary_attackers' = KantchelianAttackMultiClass(json_model, args.n_classes, args.order,
                                                       args.pred_threshold)
    /\ pc' = "ready"
    /\ UNCHANGED <<json_model, args, att, last>>

\* attack.optimal_adversarial_example(sample, label)
OptimalMC ==
    /\ pc = "ready"
    /\ \E sample \in Samples, label \in 0..(args.n_classes - 1) :
          \E out \in MultiClassLoop(binary_attackers[label + 1], args.n_classes, args.order,
                                    sample, label, 0, [best |-> NoBest, tried |-> <<>>]) :
              /\ binary_attackers' = [binary_attackers EXCEPT ![label + 1] = out.attackers]
              /\ last' = [NoLast EXCEPT !.op = "multiclass", !.sample = sample,
                              !.label = label,
                              !.ret = IF out.best.found THEN "x" ELSE "raised",
                              !.x = out.best.x, !.solved = TRUE, !.tried = out.tried]
    /\ UNCHANGED <<json_model, args, pc, att>>

NextMC == ConstructMC \/ OptimalMC

SpecMC == InitMC /\ [][NextMC]_vars

-----------------------------------------------------------------------------
(* Properties of the multiclass attacker (SpecMC) *)

\* C1: for a sample of class `label` the multiclass query runs, for every other
\* class, the pairwise query whose positive trees are those of `label` and whose
\* negative trees are those of that other class, and it returns the successful
\* result of least distance among them.
C1_Pairwise ==
    last.op = "multiclass" =>
        /\ \A other \in (0..(args.n_classes - 1)) \ {last.label} :
              \E i \in 1..Len(last.tried) :
                  /\ last.tried[i].other_label = other
                  /\ last.tried[i].pos = OneVsAll(json_model, args.n_classes, last.label)
                  /\ last.tried[i].neg = OneVsAll(json_model, args.n_classes, other)
        /\ last.ret = "x" =>
              \E i \in 1..Len(last.tried) :
                  /\ last.tried[i].ret = "x"
                  /\ last.tried[i].x = last.x
                  /\ \A k \in 1..Len(last.tried) :
                        last.tried[k].ret = "x" => last.tried[i].dist <= last.tried[k].dist

\* C9: the multiclass query raises exactly when, for every other class, the
\* pairwise query of `label` against that class yields no adversarial example.
C9_Raises ==
    last.op = "multiclass" =>
        (last.ret = "raised" <=>
            \A other \in (0..(args.n_classes - 1)) \ {last.label} :
                \A r \in optimal_adversarial_example(
                             PairAttacker(json_model, args.n_classes, args.order,
                                          args.pred_threshold, last.label, other),
                             last.sample, 1) :
                    r.ret = "None")

-----------------------------------------------------------------------------
(* Properties of the binary attacker (Spec) *)

\* the split nodes of an ensemble: (position of the tree, nodeid)
SplitNodes(json) ==
    { <<i, n>> \in UNION { {i} \X DOMAIN json[i] : i \in 1..Len(json) } : ~json[i][n].leaf }

\* the raw thresholds an ensemble tests feature f against
RawThresholds(json, f) ==
    { json[sn[1]][sn[2]].split_condition :
        sn \in { sn \in SplitNodes(json) : Attr(json[sn[1]][sn[2]].split) = f } }

\* For every decision region of the ensemble, a point of the region nearest to
\* x in every coordinate: a coordinate stays, or moves onto a threshold, or
\* moves to the last grid point below one.
Candidates(json, x) ==
    { c \in [Features -> UNION { {x[f]} \cup RawThresholds(json, f)
                                   \cup { t - 1 : t \in RawThresholds(json, f) } :
                                 f \in Features }] :
        \A f \in Features :
            c[f] \in {x[f]} \cup RawThresholds(json, f)
                       \cup { t - 1 : t \in RawThresholds(json, f) } }

\* C2: when the minimal-distance query is made with the label the verifier
\* predicts for the sample and returns a point, the verifier's prediction for
\* that point differs from the label.
C2_Soundness ==
    (last.op = "optimal" /\ last.ret = "x" /\ Prediction(att, last.sample) = last.label)
        => Prediction(att, last.x) /= last.label

\* C3: for an attacker built with radius epsilon, attack(x, label) returns True
\* exactly when no point within L-infinity distance epsilon of x is predicted
\* differently from label; on the stump with threshold 5.0, x = [3.0], label 0
\* and epsilon 1.0 it returns True.
C3_Iff ==
    (last.op = "attack" /\ att.epsilon /= NONE) =>
        /\ (last.ret = "robust") <=>
              ~ \E x \in Candidates(json_model, last.sample) :
                    /\ Norm(last.sample, x, INF) <= att.epsilon
                    /\ Prediction(att, x) /= last.label
        /\ (json_model = <<TreeD>> /\ att.epsilon = ONE /\ last.sample[0] = 3 * ONE
                /\ last.label = 0) => last.ret = "robust"

\* C4: if attack(x, label) returns True on the attacker built with radius eps2,
\* it returns True on the attacker built over the same ensemble with any
\* radius eps1, 0 <= eps1 <= eps2.
C4_Monotone ==
    (last.op = "attack" /\ att.epsilon /= NONE /\ last.ret = "robust") =>
        \A eps1 \in { e \in Epsilons : e <= att.epsilon } :
            attack(KantchelianAttack(Json(json_model), eps1, INF, NoJson, NoJson,
                                     args.pred_threshold),
                   last.sample, last.label).robust

\* the denominator of the fractional values tried for the leaf variables
LeafDen == 2

\* the assignments p binary, l[j] in {0, 1/LeafDen, .., 1} that satisfy the
\* constructor's constraints
GridRegion(m, den) ==
    LET static == {i \in 1..Len(m.constrs) : ~PerSample(m.constrs[i].name)}
        chain == {i \in static : SplitOnly(m.constrs[i])}
        P == {p \in [1..m.nP -> {0, 1}] :
                \A i \in chain : Satisfies(m.constrs[i], p, Zeros(m.nL), den)}
    IN  UNION { { [p |-> p, l |-> l] :
                    l \in {l \in [1..m.nL -> 0..den] :
                              \A i \in static \ chain : Satisfies(m.constrs[i], p, l, den)} } :
                p \in P }

\* the leaf variable of the leaf reached in a tree from node nid when every
\* split goes to its "yes" child exactly when its variable is 1
RECURSIVE LeafFollowing(_, _, _, _, _)
LeafFollowing(a, tree, treeid, nid, p) ==
    IF tree[nid].leaf
    THEN CHOOSE j \in 1..Len(a.leaf_pos_list) :
            a.leaf_pos_list[j] = [treeid |-> treeid, nodeid |-> nid]
    ELSE
        LET v == NodeCheckIndex(a.node_list, Attr(tree[nid].split),
                                Round(tree[nid].split_condition))
        IN  IF p[v] = 1
            THEN LeafFollowing(a, tree, treeid, tree[nid].yes, p)
            ELSE LeafFollowing(a, tree, treeid, tree[nid].no, p)

\* C5: under the constructor's constraints, with binary split variables and the
\* leaf variables anywhere in [0, 1], exactly one leaf variable of every tree
\* is 1 and the others are 0, and that leaf is the one the traversal from the
\* root reaches by following the split variables.
C5_Exact ==
    (pc = "ready" /\ last.op = "none") =>
        \A a \in GridRegion(att.m, LeafDen) :
            \A i \in 1..Len(json_model) :
                LET reached == LeafFollowing(att, json_model[i], i - 1, 0, a.p)
                IN  \A j \in (att.leaf_count[i] + 1)..att.leaf_count[i + 1] :
                        a.l[j] = IF j = reached THEN LeafDen ELSE 0

\* a built attacker of two trees, one with a split below the root, with an
\* assignment under which a leaf below that split is the active one
C5_Witness ==
    /\ pc = "ready" /\ last.op = "none" /\ Len(json_model) = 2
    /\ \E a \in GridRegion(att.m, LeafDen) :
          \E i \in 1..Len(json_model) :
              /\ att.leaf_pos_list[LeafFollowing(att, json_model[i], i - 1, 0, a.p)].nodeid = 4
              /\ a.l[LeafFollowing(att, json_model[i], i - 1, 0, a.p)] = LeafDen

\* the (feature, threshold) pairs of the split nodes, thresholds as given
RawPairs(json) ==
    { <<Attr(json[sn[1]][sn[2]].split), json[sn[1]][sn[2]].split_condition>> :
        sn \in SplitNodes(json) }

\* the same with the thresholds rounded to round_digits
RoundedPairs(json) ==
    { <<Attr(json[sn[1]][sn[2]].split), Round(json[sn[1]][sn[2]].split_condition)>> :
        sn \in SplitNodes(json) }

\* C6 as stated: the number of unique splits is the number of distinct
\* (feature, threshold) pairs over all split nodes.
C6_Original ==
    pc = "ready" => Len(att.node_list) = Cardinality(RawPairs(json_model))

\* C6: the number of unique splits, and of split variables, is the number of
\* distinct (feature, threshold rounded to round_digits) pairs over all split
\* nodes; every split node belongs to exactly one unique split, the one of its
\* feature and rounded threshold, so split nodes that agree on both share one
\* variable.
C6_Sharing ==
    pc = "ready" =>
        /\ Len(att.node_list) = Cardinality(RoundedPairs(json_model))
        /\ att.m.nP = Len(att.node_list)
        /\ \A sn \in SplitNodes(json_model) :
              LET node == json_model[sn[1]][sn[2]]
                  at == { j \in 1..Len(att.node_list) :
                            \E k \in 1..Len(att.node_list[j].node_pos) :
                                att.node_list[j].node_pos[k]
                                    = [treeid |-> sn[1] - 1, nodeid |-> sn[2]] }
              IN  /\ Cardinality(at) = 1
                  /\ \A j \in at : /\ att.node_list[j].attribute = Attr(node.split)
                                    /\ att.node_list[j].threshold = Round(node.split_condition)
        /\ \A j1, j2 \in 1..Len(att.node_list) :
              (att.node_list[j1].attribute = att.node_list[j2].attribute
                  /\ att.node_list[j1].threshold = att.node_list[j2].threshold) => j1 = j2

\* two split nodes whose thresholds differ before rounding share a unique split
C6_Witness ==
    /\ pc = "ready"
    /\ Cardinality(RawPairs(json_model)) > Cardinality(RoundedPairs(json_model))
    /\ \E j \in 1..Len(att.node_list) : Len(att.node_list[j].node_pos) = 2

\* C7: when the verifier's prediction for the sample already differs from the
\* label, the minimal-distance query returns the sample itself, leaves every
\* constraint and the objective as they were, and does not run the solver.
C7_Frame ==
    [][ (pc = "ready" /\ last'.op = "optimal"
            /\ Prediction(att, last'.sample) /= last'.label)
        => (att' = att /\ last'.ret = "x" /\ last'.x = last'.sample /\ ~last'.solved) ]_vars

\* an early return on an attacker whose model holds the constraints of an
\* earlier query
C7_Witness ==
    /\ last.op = "optimal" /\ last.early /\ ~last.solved
    /\ Prediction(att, last.sample) /= last.label
    /\ \E i \in 1..Len(att.m.constrs) : att.m.constrs[i].name.kind = "mislabel"

\* C8 as stated: a split variable at 1 means feature >= threshold; at 1 a
\* feature below the threshold is moved to threshold + guard, at 0 a feature at
\* or above the threshold is moved to threshold - guard.
C8_Original ==
    (last.op = "optimal" /\ last.solved /\ last.ret = "x") =>
        \A i \in 1..Len(last.steps) :
            LET s == last.steps[i]
            IN  /\ (s.p = 1 /\ s.before < s.threshold)
                      => s.after = s.threshold + att.guard_val
                /\ (s.p = 0 /\ s.before >= s.threshold)
                      => s.after = s.threshold - att.guard_val

\* C8: a split variable at 1 means feature < threshold.  The reconstruction
\* visits every unique split; at 1 a feature at or above the threshold is moved
\* to threshold - guard, at 0 a feature below the threshold is moved to
\* threshold + guard, otherwise the feature stays; afterwards the feature is
\* below the threshold exactly when the variable is 1.
C8_Polarity ==
    (last.op = "optimal" /\ last.solved /\ last.ret = "x") =>
        /\ Len(last.steps) = Len(att.node_list)
        /\ \A i \in 1..Len(last.steps) :
              LET s == last.steps[i]
              IN  /\ s.p = last.p[s.var]
                  /\ s.threshold = att.node_list[s.var].threshold
                  /\ s.after = (CASE s.p = 1 /\ s.before >= s.threshold
                                       -> s.threshold - att.guard_val
                                  [] s.p = 0 /\ s.before < s.threshold
                                       -> s.threshold + att.guard_val
                                  [] OTHER -> s.before)
                  /\ (s.after < s.threshold) <=> (s.p = 1)

\* a reconstruction in which a variable at 1 moves a feature from above its
\* threshold to threshold - guard and a variable at 0 leaves a feature at or
\* above its threshold where it is
C8_Witness ==
    /\ last.op = "optimal" /\ last.solved /\ last.ret = "x"
    /\ \E i \in 1..Len(last.steps) :
          /\ last.steps[i].p = 1 /\ last.steps[i].before >= last.steps[i].threshold
          /\ last.steps[i].after = last.steps[i].threshold - att.guard_val
    /\ \E i \in 1..Len(last.steps) :
          /\ last.steps[i].p = 0 /\ last.steps[i].before >= last.steps[i].threshold
          /\ last.steps[i].after = last.steps[i].before

\* some split node's "yes" or "no" link names none of its children
Malformed(json) ==
    \E sn \in SplitNodes(json) :
        LET node == json[sn[1]][sn[2]]
        IN  \/ \A c \in 1..Len(node.children) : node.children[c] /= node.yes
            \/ \A c \in 1..Len(node.children) : node.children[c] /= node.no

\* C10: given an ensemble in which some split node's "yes" or "no" link names
\* none of its children, the constructor raises ValueError and no optimization
\* model has been created.
C10_Malformed ==
    (pc /= "init" /\ Malformed(json_model)) =>
        (pc = "failed" /\ ~att.built /\ ~att.m.created)

\* the constructor has failed on an ensemble whose first tree is well formed
\* and whose second has the dangling link below its root
C10_Witness ==
    /\ pc = "failed" /\ Len(json_model) = 2
    /\ ~Malformed(<< json_model[1] >>) /\ Malformed(<< json_model[2] >>)
    /\ ~att.m.created

\* the positions of the constraints of a model that bear a name
Named(m, name) == {i \in 1..Len(m.constrs) : m.constrs[i].name = name}

\* C11: whatever attack and optimal_adversarial_example calls were made on a
\* binary attacker, its model holds at most one constraint named "mislabel" and
\* at most one named "linf_constr_attr<f>" for every feature f; a call that
\* reaches the solver leaves as "mislabel" its own constraint (leaf-value sum
\* <= pred_threshold - guard for label 1, >= pred_threshold + guard for label
\* 0); a call that does not reach the solver leaves the one there was.
C11_Replaced ==
    [][ (pc = "ready" /\ last'.op \in {"attack", "optimal"}) =>
          LET mis == Named(att'.m, Name("mislabel", 0, 0))
          IN  /\ Cardinality(mis) <= 1
              /\ \A f \in Features :
                    Cardinality(Named(att'.m, Name("linf_constr_attr", f, 0))) <= 1
              /\ \A i \in 1..Len(att'.m.constrs) :
                    att'.m.constrs[i].name.kind = "mislabel" => i \in mis
              /\ last'.solved =>
                    \E i \in mis :
                        LET c == att'.m.constrs[i]
                        IN  /\ c.lcoef = att.leaf_v_list /\ c.pcoef = Zeros(att.m.nP)
                            /\ c.bcoef = 0
                            /\ IF last'.label = 1
                               THEN c.sense = "<=" /\ c.rhs = att.pred_threshold - att.guard_val
                               ELSE c.sense = ">=" /\ c.rhs = att.pred_threshold + att.guard_val
              /\ ~last'.solved =>
                    { att'.m.constrs[i] : i \in mis }
                        = { att.m.constrs[i] : i \in Named(att.m, Name("mislabel", 0, 0)) }
      ]_vars

\* the last call, with label 1, returned early; the model still holds, once,
\* the "mislabel" constraint of an earlier call with label 0 and one distance
\* constraint for each of two features
C11_Witness ==
    /\ last.op = "optimal" /\ last.early /\ last.label = 1
    /\ \E i \in Named(att.m, Name("mislabel", 0, 0)) : att.m.constrs[i].sense = ">="
    /\ Cardinality(Named(att.m, Name("mislabel", 0, 0))) = 1
    /\ \A f \in Features : Cardinality(Named(att.m, Name("linf_constr_attr", f, 0))) = 1

\* the constraints of a model other than "mislabel" and "linf_constr_attr<f>"
Structural(m) == SelectSeq(m.constrs, LAMBDA c : ~(c.name.kind \in {"mislabel", "linf_constr_attr"}))

\* what a query gives back: the value returned and, for a point, the point
Results(outcomes) == { [ret |-> r.ret, x |-> r.x] : r \in outcomes }

\* C12: after any sequence of attack and optimal_adversarial_example calls the
\* attacker differs from the freshly built one only in the "mislabel"
\* constraint, the "linf_constr_attr<f>" constraints and the objective: its
\* variables, its structural constraints and its compiled lists are those of
\* the fresh attacker, and every query gives on it what it gives on the fresh
\* attacker.
C12_Frame ==
    pc = "ready" =>
        LET fresh == KantchelianAttack(Json(json_model), args.epsilon, args.order, NoJson,
                                       NoJson, args.pred_threshold)
        IN  /\ [att EXCEPT !.m = fresh.m] = fresh
            /\ [att.m EXCEPT !.constrs = fresh.m.constrs, !.objective = fresh.m.objective]
                   = fresh.m
            /\ Structural(att.m) = fresh.m.constrs
            /\ \A sample \in Samples, label \in Labels :
                  /\ Results(optimal_adversarial_example(att, sample, label))
                        = Results(optimal_adversarial_example(fresh, sample, label))
                  /\ att.order = INF =>
                        attack(att, sample, label).robust = attack(fresh, sample, label).robust

\* an attacker that has answered a query of each kind: its model holds a
\* "mislabel" constraint, a distance constraint and the objective of the
\* feasibility query, over an ensemble with ordering and coupling constraints
C12_Witness ==
    /\ pc = "ready" /\ last.op = "attack" /\ Len(att.node_list) >= 2
    /\ Len(Structural(att.m)) < Len(att.m.constrs)
    /\ Len(Structural(att.m)) >= 5
    /\ \E i \in 1..Len(att.m.constrs) : att.m.constrs[i].name.kind = "p_consis_attr"
    /\ att.m.objective.kind = "const"

\* the query of the single-split scenario: the stump with threshold 5.0, leaf
\* -1.0 below it and +1.0 from it on, pred_threshold 0.0, no epsilon, order
\* infinity, sample feature 0 = 3.0, label 0
InScenario ==
    /\ json_model = <<TreeD>> /\ args.epsilon = NONE /\ args.order = INF
    /\ args.pred_threshold = 0
    /\ last.op = "optimal" /\ last.sample[0] = 3 * ONE /\ last.label = 0

\* C13: in the single-split scenario optimal_adversarial_example returns a
\* point whose feature 0 is 5.0 + guard, at L-infinity distance 2.0 + guard
\* from the sample, and the verifier predicts class 1 on it.
C13_Scenario ==
    InScenario =>
        /\ last.ret = "x" /\ last.solved
        /\ last.x[0] = 5 * ONE + GUARD_VAL
        /\ att.guard_val = GUARD_VAL
        /\ Norm(last.sample, last.x, INF) = 2 * ONE + GUARD_VAL
        /\ Prediction(att, last.x) = 1

\* the scenario's query has been answered with a point
C13_Witness == InScenario /\ last.ret = "x" /\ last.x /= last.sample

\* self.guard_val once the loop over self.pdict.keys() of __init__ has handled
\* the first j features
GuardAfter(a, j) ==
    LET filled == FillPdict(a.node_list, 1, << >>, <<>>)
    IN  OrderFeatures(SubSeq(filled.pkeys, 1, j), 1, filled.pdict, GUARD_VAL, <<>>,
                      a.m.nP, a.m.nL).guard_val

\* the gaps between the consecutive thresholds of one feature
Gaps(items) == { items[i + 1].threshold - items[i].threshold : i \in 1..(Len(items) - 1) }

\* C14: while the model is built the guard value only decreases, every change
\* setting it to a third of the least threshold gap of the feature at hand,
\* strictly below what it was; when construction is over, the thresholds of
\* every feature with two or more unique splits are at least twice the guard
\* value apart, so that threshold + guard and threshold - guard stay strictly
\* between the neighbouring thresholds.
C14_GuardShrink ==
    pc = "ready" =>
        /\ GuardAfter(att, 0) = GUARD_VAL
        /\ GuardAfter(att, Len(att.pkeys)) = att.guard_val
        /\ att.guard_val > 0
        /\ \A j \in 1..Len(att.pkeys) :
              /\ GuardAfter(att, j) <= GuardAfter(att, j - 1)
              /\ GuardAfter(att, j) /= GuardAfter(att, j - 1) =>
                    /\ Gaps(att.pdict[att.pkeys[j]]) /= {}
                    /\ \A g \in Gaps(att.pdict[att.pkeys[j]]) : 3 * GuardAfter(att, j) <= g
                    /\ \E g \in Gaps(att.pdict[att.pkeys[j]]) : 3 * GuardAfter(att, j) = g
                    /\ GuardAfter(att, j) < GuardAfter(att, j - 1)
        /\ \A j \in 1..Len(att.pkeys) :
              LET items == att.pdict[att.pkeys[j]]
              IN  \A i \in 1..(Len(items) - 1) :
                      /\ items[i + 1].threshold - items[i].threshold >= 2 * att.guard_val
                      /\ items[i].threshold + att.guard_val < items[i + 1].threshold
                      /\ items[i + 1].threshold - att.guard_val > items[i].threshold

\* an attacker whose guard value was shrunk for its first feature and again,
\* further, for its second
C14_Witness ==
    /\ pc = "ready" /\ Len(att.pkeys) = 2
    /\ GuardAfter(att, 1) < GUARD_VAL
    /\ GuardAfter(att, 2) < GuardAfter(att, 1)
    /\ att.guard_val = GuardAfter(att, 2)

\* the leaf variables of the leaves below node nid of a tree
RECURSIVE LeavesUnder(_, _, _, _)
LeavesUnder(a, tree, treeid, nid) ==
    IF tree[nid].leaf
    THEN { j \in 1..Len(a.leaf_pos_list) :
              a.leaf_pos_list[j] = [treeid |-> treeid, nodeid |-> nid] }
    ELSE LeavesUnder(a, tree, treeid, tree[nid].yes)
            \cup LeavesUnder(a, tree, treeid, tree[nid].no)

\* the node-leaf coupling constraints of a model
CouplingConstrs(m) ==
    { i \in 1..Len(m.constrs) :
        m.constrs[i].name.kind \in {"root_left", "root_right", "left", "right"} }

\* C15: every split node of every tree (every occurrence of a unique split,
\* also when the split occurs again in the same tree or in another) contributes
\* exactly two coupling constraints, over the leaves below its own "yes" child
\* and below its own "no" child: sum(left) - p = 0 and sum(right) + p = 1 if
\* the node is the root of its tree, sum(left) - p <= 0 and sum(right) + p <= 1
\* if it is not, whatever the other occurrences of the split are.
C15_Coupling ==
    pc = "ready" =>
        /\ Cardinality(CouplingConstrs(att.m)) = 2 * Cardinality(SplitNodes(json_model))
        /\ \A sn \in SplitNodes(json_model) :
              LET tree == json_model[sn[1]]
                  node == tree[sn[2]]
                  j == NodeCheckIndex(att.node_list, Attr(node.split),
                                      Round(node.split_condition))
                  k == CHOOSE k \in 1..Len(att.node_list[j].node_pos) :
                          att.node_list[j].node_pos[k]
                              = [treeid |-> sn[1] - 1, nodeid |-> sn[2]]
                  own == { i \in CouplingConstrs(att.m) :
                              att.m.constrs[i].name.a = j - 1
                                  /\ att.m.constrs[i].name.b = k - 1 }
                  left == LeavesUnder(att, tree, sn[1] - 1, node.yes)
                  right == LeavesUnder(att, tree, sn[1] - 1, node.no)
                  sense == IF sn[2] = 0 THEN "==" ELSE "<="
              IN  /\ Cardinality(own) = 2
                  /\ \E i1 \in own :
                        LET c == att.m.constrs[i1]
                        IN  /\ c.pcoef = [v \in 1..att.m.nP |-> IF v = j THEN -1 ELSE 0]
                            /\ c.lcoef = [v \in 1..att.m.nL |-> IF v \in left THEN 1 ELSE 0]
                            /\ c.bcoef = 0 /\ c.sense = sense /\ c.rhs = 0
                  /\ \E i2 \in own :
                        LET c == att.m.constrs[i2]
                        IN  /\ c.pcoef = [v \in 1..att.m.nP |-> IF v = j THEN 1 ELSE 0]
                            /\ c.lcoef = [v \in 1..att.m.nL |-> IF v \in right THEN 1 ELSE 0]
                            /\ c.bcoef = 0 /\ c.sense = sense /\ c.rhs = 1

\* a unique split with three occurrences: the root of one tree and two nodes
\* below the root of another
C15_Witness ==
    /\ pc = "ready"
    /\ \E j \in 1..Len(att.node_list) :
          /\ Len(att.node_list[j].node_pos) = 3
          /\ att.node_list[j].leaves_lists[1].root
          /\ ~att.node_list[j].leaves_lists[2].root
          /\ ~att.node_list[j].leaves_lists[3].root
          /\ att.node_list[j].node_pos[2].treeid = att.node_list[j].node_pos[3].treeid
          /\ att.node_list[j].node_pos[1].treeid /= att.node_list[j].node_pos[2].treeid

\* the exponents of the distance: 1 for order inf, the order otherwise
Rhos == {0, 1, 2}

\* the number of thresholds of a feature that are at or below a value: the
\* position of the interval that holds the value
IntervalOf(items, xv) == Cardinality({ i \in 1..Len(items) : items[i].threshold <= xv })

\* the potential of interval k (k thresholds at or below it) for a value xv
PotentialOf(items, xv, guard_val, rho, k) ==
    IF k = IntervalOf(items, xv) THEN 0
    ELSE IF k > IntervalOf(items, xv) THEN Pow(Abs(xv - items[k].threshold), rho)
    ELSE Pow(Abs(xv - items[k + 1].threshold + guard_val), rho)

\* whether the potentials of a value are within the integers of the model
\* (squares of distances up to 46340 units are)
Representable(items, xv, rho) ==
    rho = 2 => \A i \in 1..Len(items) : Abs(xv - items[i].threshold) + GUARD_VAL <= 46340

\* C16: for every feature, with its thresholds in ascending order and the
\* potentials w_0..w_n of its intervals for x (0 for the interval that holds x,
\* |x - lower edge|^rho above it, |x - upper edge + guard|^rho below it), the
\* differenced expression over the feature's split variables plus w_n has the
\* value w_k under every assignment of these variables that satisfies the
\* ordering chain and selects interval k.
C16_Telescoping ==
    pc = "ready" =>
        \A x \in Samples, rho \in Rhos, kk \in 1..Len(att.pkeys) :
          Representable(att.pdict[att.pkeys[kk]], x[att.pkeys[kk]], rho) =>
            LET key == att.pkeys[kk]
                items == att.pdict[key]
                n == Len(items)
                w == W(items, x[key], att.guard_val, rho)
                d == Differenced(w)
                coefs == CoefOnVars(att.m.nP, items, d)
            IN  /\ \A k \in 0..n : w[k + 1] = PotentialOf(items, x[key], att.guard_val, rho, k)
                /\ \A p \in [1..att.m.nP -> {0, 1}] :
                      (\A i \in 1..(n - 1) : p[items[i].var] <= p[items[i + 1].var]) =>
                          LET k == Cardinality({ i \in 1..n : p[items[i].var] = 0 })
                          IN  Dot(coefs, p) + d[n + 1] = w[k + 1]

\* a solved query on a sample that lies above two thresholds of a feature, so
\* that the potentials of the intervals below the sample differ and the
\* returned point is away from the sample
C16_Witness ==
    /\ pc = "ready" /\ last.op = "optimal" /\ last.solved /\ last.ret = "x"
    /\ last.x /= last.sample
    /\ \E kk \in 1..Len(att.pkeys) :
          LET items == att.pdict[att.pkeys[kk]]
          IN  /\ Len(items) >= 2
              /\ IntervalOf(items, last.sample[att.pkeys[kk]]) = Len(items)
              /\ last.x[att.pkeys[kk]] /= last.sample[att.pkeys[kk]]

\* the assignments of the split variables that satisfy the ordering chain of
\* every feature
ChainAssignments(a) ==
    { p \in [1..a.m.nP -> {0, 1}] :
        \A kk \in 1..Len(a.pkeys) :
            \A i \in 1..(Len(a.pdict[a.pkeys[kk]]) - 1) :
                p[a.pdict[a.pkeys[kk]][i].var] <= p[a.pdict[a.pkeys[kk]][i + 1].var] }

\* a point lies, for every unique split, below the threshold exactly when the
\* split's variable is 1
Agrees(a, x, p) ==
    \A j \in 1..Len(a.node_list) :
        (x[a.node_list[j].attribute] < a.node_list[j].threshold) <=> (p[j] = 1)

\* the same for the splits of one feature
AgreesOn(a, x, p, f) ==
    \A j \in 1..Len(a.node_list) :
        a.node_list[j].attribute = f => ((x[f] < a.node_list[j].threshold) <=> (p[j] = 1))

\* C17: for every sample and every assignment of the split variables that
\* satisfies the ordering chain, the point the reconstruction loop ends with
\* lies, for every unique split, below the split's threshold exactly when the
\* split's variable is above 0.5; a feature whose value agrees with all its
\* split variables already, or that no split uses, keeps the sample's value.
\* The point a solved query returns is the one so reconstructed from the
\* solver's assignment.
C17_Lands ==
    pc = "ready" =>
        /\ \A sample \in Samples, p \in ChainAssignments(att) :
              LET r == Reconstruct(att, p, 1, 1, sample, <<>>)
              IN  /\ Agrees(att, r.x, p)
                  /\ \A f \in Features : AgreesOn(att, sample, p, f) => r.x[f] = sample[f]
        /\ (last.op = "optimal" /\ last.solved /\ last.ret = "x") =>
              /\ last.p \in ChainAssignments(att)
              /\ last.x = Reconstruct(att, last.p, 1, 1, last.sample, <<>>).x
              /\ Agrees(att, last.x, last.p)

\* a solved query whose assignment puts a feature between two of its
\* thresholds (variable 0 for the lower, 1 for the upper) and whose point has
\* that feature moved there from outside
C17_Witness ==
    /\ pc = "ready" /\ last.op = "optimal" /\ last.solved /\ last.ret = "x"
    /\ \E kk \in 1..Len(att.pkeys) :
          LET key == att.pkeys[kk]
              items == att.pdict[key]
          IN  /\ Len(items) >= 2
              /\ last.p[items[1].var] = 0 /\ last.p[items[2].var] = 1
              /\ last.x[key] /= last.sample[key]
              /\ items[1].threshold <= last.x[key] /\ last.x[key] < items[2].threshold

-----------------------------------------------------------------------------
(* The pairwise attackers' success constraint against their prediction rule (SpecMC) *)

\* the attackers of binary_attackers that were built and hold a "mislabel"
\* constraint: (class, position in the class's list)
Attacked ==
    { ck \in UNION { {c} \X (1..Len(binary_attackers[c])) : c \in DOMAIN binary_attackers } :
        /\ binary_attackers[ck[1]][ck[2]].built
        /\ Named(binary_attackers[ck[1]][ck[2]].m, Name("mislabel", 0, 0)) /= {} }

\* the assignments of attacker a that satisfy its constructor's constraints
\* and its "mislabel" constraint
MislabelRegion(a) ==
    { s \in a.m.region :
        \A i \in Named(a.m, Name("mislabel", 0, 0)) : Satisfies(a.m.constrs[i], s.p, s.l, 1) }

\* the pairwise prediction rule on the selected leaves: the leaf values of the
\* negative trees are stored negated, so that the positive sum minus the
\* negative sum is the sum of leaf_v_list over the selected leaves
PairwisePred(a, l) == IF Dot(a.leaf_v_list, l) >= 0 THEN 1 ELSE 0

\* C18: every assignment of a pairwise attacker that satisfies the "mislabel"
\* constraint selects leaves on which the pairwise prediction rule (class 1 iff
\* positive sum >= negative sum) yields class 0, whatever pred_threshold is.
C18_Agrees ==
    pc = "ready" =>
        \A ck \in Attacked :
            LET a == binary_attackers[ck[1]][ck[2]]
            IN  \A s \in MislabelRegion(a) : PairwisePred(a, s.l) = 0

====
